---- MODULE Spec2Model ----
(***************************************************************************)
(* The particle store of assembly/index.ts: a flat Float32Array of         *)
(* 6-field records [x, y, vx, vy, radius, mass], the uniform grid rebuilt  *)
(* by every updateParticles call, and the two force applicators.           *)
(*                                                                         *)
(* Numbers.  A float is kept as an integer count of 1/Scale units, so 5.0  *)
(* is 5 * Scale.  Sums and differences of such values are exact; a         *)
(* product, a quotient or a square root that does not fall on a multiple   *)
(* of 1/Scale is rounded to the nearest one (Mul, Div, Sqrt below), as the *)
(* float operation rounds its result to the nearest value it can hold.     *)
(* <i32>(...) truncates toward zero (Trunc).                               *)
(***************************************************************************)
EXTENDS Integers, Sequences, FiniteSets

\* ------------------------------------------------------------ arithmetic

\* Resolution of the stored values: 1/Scale.
Scale == 100

Abs(a) == IF a < 0 THEN -a ELSE a

\* a / b for b > 0, rounded to the nearest integer (halves away from zero).
RoundDiv(a, b) ==
  IF a >= 0 THEN (2 * a + b) \div (2 * b)
            ELSE -((2 * (-a) + b) \div (2 * b))

\* The float product a * b.
Mul(a, b) == RoundDiv(a * b, Scale)

\* The float quotient a / b (b /= 0).
Div(a, b) ==
  IF b > 0 THEN RoundDiv(a * Scale, b) ELSE RoundDiv((-a) * Scale, -b)

\* The largest r in lo..hi with r * r <= n (lo * lo <= n < (hi + 1)^2).
RECURSIVE ISqrtIn(_, _, _)
ISqrtIn(n, lo, hi) ==
  IF lo >= hi THEN lo
  ELSE LET mid == (lo + hi + 1) \div 2
       IN  IF mid * mid <= n THEN ISqrtIn(n, mid, hi)
                             ELSE ISqrtIn(n, lo, mid - 1)

\* Math.sqrt(a) for a >= 0: the root of a / Scale in 1/Scale units, nearest.
Sqrt(a) ==
  LET n == a * Scale
      r == ISqrtIn(n, 0, 40000)
  IN  IF n - r * r > r THEN r + 1 ELSE r

\* <i32>(a / b) for b > 0: the quotient truncated toward zero.
Trunc(a, b) == IF a >= 0 THEN a \div b ELSE -((-a) \div b)

\* ------------------------------------------------------------ the store

PARTICLE_SIZE == 6

\* gridCellSize = 20.0
gridCellSize == 20 * Scale

\* The factor a wall leaves of the speed normal to it (0.8).
WallRestitution == (8 * Scale) \div 10

\* restitution = 0.9 of the pair resolver.
restitution == (9 * Scale) \div 10

\* The guard 0.01 below which a squared distance counts as zero.
MinDistSq == Scale \div 100

VARIABLES
  particleCount,  \* let particleCount: i32
  particles,      \* let particles: Float32Array, a sequence of its elements
  damping,        \* let damping: f32
  gridWidth,      \* let gridWidth: i32
  gridHeight,     \* let gridHeight: i32
  grid,           \* let grid: Array<Array<i32>>, cells of slot indices
  dataStart,      \* which allocation particles.dataStart points at
  \* history of the last call, read by the properties only
  op,             \* the exported function called last
  args,           \* its numeric arguments
  status,         \* "ok" when it returned, "abort" when it trapped
  pre,            \* the buffer it started from (empty when it replaced it)
  preCount,       \* particleCount when it started
  mid,            \* updateParticles: the buffer after the integrate loop
  tests,          \* updateParticles: its narrow-phase evaluations, in order
  run,            \* the current run of equal applyGravity calls
  born,           \* the buffer as the last completed initParticles left it
  world,          \* its width and height, and whether every step since used them
  calls,          \* number of calls so far
  preGrid,        \* the cells as they were when the last call started
  view,           \* the host's Float32Array over the store: its offset and length
  reads,          \* updateParticles: the cell indices its scans read, in order
  limit,          \* the number of calls the behaviour may make
  preShape        \* gridWidth and gridHeight when the last call started

vars == <<particleCount, particles, damping, gridWidth, gridHeight, grid,
          dataStart, op, args, status, pre, preCount, mid, tests, run, born,
          world, calls, preGrid, view, reads, limit,
          preShape>>

store == <<particleCount, particles, damping, gridWidth, gridHeight, grid,
           dataStart>>

\* Element off of buffer p, offsets counted from 0 as in the source.
Get(p, off) == p[off + 1]
Put(p, off, v) == [p EXCEPT ![off + 1] = v]

\* particles[off] += d
Add(p, off, d) == [p EXCEPT ![off + 1] = @ + d]

X(p, i) == Get(p, i * PARTICLE_SIZE)
Y(p, i) == Get(p, i * PARTICLE_SIZE + 1)
VX(p, i) == Get(p, i * PARTICLE_SIZE + 2)
VY(p, i) == Get(p, i * PARTICLE_SIZE + 3)
Radius(p, i) == Get(p, i * PARTICLE_SIZE + 4)
Mass(p, i) == Get(p, i * PARTICLE_SIZE + 5)

\* Number of whole records in buffer p.
Records(p) == Len(p) \div PARTICLE_SIZE

NoRun == [k |-> 0, gx |-> 0, gy |-> 0, base |-> <<>>]

\* ------------------------------------------------------------ bounds

\* Calls per behaviour.
MaxCalls == 3

\* Calls per behaviour of the reuse specification.
MaxReuseCalls == 4

\* ------------------------------------------------------------ inputs

\* One particle's five Math.random() results, each in [0, 1).
Draws ==
  { [ux |-> 50, uy |-> 50, uvx |-> 70, uvy |-> 50, ur |-> 40],
    [ux |-> 70, uy |-> 50, uvx |-> 30, uvy |-> 50, ur |-> 40],
    [ux |-> 10, uy |-> 50, uvx |-> 30, uvy |-> 50, ur |-> 20],
    [ux |-> 30, uy |-> 50, uvx |-> 50, uvy |-> 50, ur |-> 98],
    [ux |-> 56, uy |-> 58, uvx |-> 70, uvy |-> 70, ur |-> 20],
    [ux |-> 90, uy |-> 90, uvx |-> 70, uvy |-> 70, ur |-> 20] }

\* Draws of particles at rest, for a world 60 wide and 40 high.
AtRest(ux, uy, ur) == [ux |-> ux, uy |-> uy, uvx |-> 50, uvy |-> 50, ur |-> ur]

\* The draws of three particles: a cluster in one cell, with the particle
\* that overlaps both others in slot 0 and in slot 2, and a row of three in
\* three different columns of the grid.
Triples ==
  { << AtRest(40, 50, 40), AtRest(42, 50, 40), AtRest(40, 53, 40) >>,
    << AtRest(42, 50, 40), AtRest(40, 53, 40), AtRest(40, 50, 40) >>,
    << AtRest(25, 50, 98), AtRest(67, 50, 98), AtRest(33, 50, 98) >> }

\* The draws of two particles: a head-on pair in both slot orders, a pair at
\* the left wall in both slot orders, two particles at the same place, a
\* heavy and a light overlapping particle, two near particles that overlap
\* on a diagonal, two particles too far apart to touch, and a particle at
\* the left wall with one at the bottom wall.
Pairs ==
  LET a == [ux |-> 50, uy |-> 50, uvx |-> 70, uvy |-> 50, ur |-> 40]
      b == [ux |-> 70, uy |-> 50, uvx |-> 30, uvy |-> 50, ur |-> 40]
      e == [ux |-> 10, uy |-> 50, uvx |-> 30, uvy |-> 50, ur |-> 20]
      g == [ux |-> 30, uy |-> 50, uvx |-> 50, uvy |-> 50, ur |-> 98]
      c == [ux |-> 56, uy |-> 58, uvx |-> 70, uvy |-> 70, ur |-> 20]
      f == [ux |-> 90, uy |-> 90, uvx |-> 70, uvy |-> 70, ur |-> 20]
  IN  { <<a, b>>, <<b, a>>, <<e, g>>, <<g, e>>, <<a, a>>, <<g, a>>, <<a, c>>,
        <<c, f>>, <<e, f>> }

\* The sequences of draws an initParticles(count, ...) call may see.
DrawSeqs(count) ==
  IF count = 3 THEN Triples
  ELSE IF count = 2 THEN Pairs
  ELSE [1..count -> Draws]

\* initParticles(count, width, height, _damping)
InitArgs ==
  { <<2, 40 * Scale, 40 * Scale, Scale>>,
    <<2, 40 * Scale, 40 * Scale, (95 * Scale) \div 100>>,
    <<1, 40 * Scale, 40 * Scale, (95 * Scale) \div 100>>,
    <<0, 40 * Scale, 40 * Scale, Scale>>,
    <<-1, 40 * Scale, 40 * Scale, Scale>>,
    <<1, (-40) * Scale, 40 * Scale, Scale>>,
    <<3, 60 * Scale, 40 * Scale, Scale>> }

\* updateParticles(deltaTime, width, height)
StepArgs ==
  { <<0, 40 * Scale, 40 * Scale>>,
    <<Scale \div 2, 40 * Scale, 40 * Scale>>,
    <<Scale \div 2, 60 * Scale, 40 * Scale>>,
    <<0, 4 * Scale, 40 * Scale>> }

\* applyGravity(gravityX, gravityY)
GravityArgs == { <<0, 10 * Scale>>, <<(-10) * Scale, 0>> }

\* applyForce(mouseX, mouseY, forceRadius, strength)
ForceArgs ==
  { <<20 * Scale, 20 * Scale, 16 * Scale, 100 * Scale>>,
    <<20 * Scale, 20 * Scale, (-16) * Scale, 100 * Scale>>,
    <<20 * Scale, 20 * Scale, 0, 100 * Scale>> }

\* ------------------------------------------------------------ initParticles

\* InitRecord with the mass proportional to the radius instead of its square.
InitRecord_LinearMass(d, width, height) ==
  LET radius == 3 * Scale + Mul(d.ur, 5 * Scale)
  IN  << Mul(d.ux, width),
         Mul(d.uy, height),
         Mul(d.uvx - Scale \div 2, 50 * Scale),
         Mul(d.uvy - Scale \div 2, 50 * Scale),
         radius,
         radius >>

\* The six elements the loop body writes for one particle.
InitRecord(d, width, height) ==
  LET radius == 3 * Scale + Mul(d.ur, 5 * Scale)
  IN  << Mul(d.ux, width),
         Mul(d.uy, height),
         Mul(d.uvx - Scale \div 2, 50 * Scale),
         Mul(d.uvy - Scale \div 2, 50 * Scale),
         radius,
         Mul(radius, radius) >>

\* The buffer after the loop: the records of draws ds[1..count] in slot order.
RECURSIVE InitBuffer(_, _, _, _)
InitBuffer(ds, count, width, height) ==
  IF count <= 0 THEN <<>>
  ELSE InitBuffer(ds, count - 1, width, height)
         \o InitRecord(ds[count], width, height)

\* new Float32Array(length) throws a RangeError for a negative length.
AllocFails(length) == length < 0

initParticles(count, width, height, _damping) ==
  /\ calls < limit
  /\ particleCount' = count
  /\ IF AllocFails(count * PARTICLE_SIZE)
     THEN /\ status' = "abort"
          /\ UNCHANGED <<particles, damping, dataStart, born, world>>
     ELSE /\ status' = "ok"
          /\ \E ds \in DrawSeqs(count) :
               particles' = InitBuffer(ds, count, width, height)
          /\ damping' = _damping
          /\ dataStart' = dataStart + 1
          /\ born' = particles'
          /\ world' = <<width, height, TRUE>>
  /\ UNCHANGED <<gridWidth, gridHeight, grid>>
  /\ op' = "initParticles"
  /\ args' = <<count, width, height, _damping>>
  /\ pre' = <<>>
  /\ preCount' = particleCount
  /\ preGrid' = grid
  /\ UNCHANGED limit
  /\ preShape' = <<gridWidth, gridHeight>>
  /\ UNCHANGED view
  /\ mid' = <<>>
  /\ tests' = <<>>
  /\ reads' = <<>>
  /\ run' = NoRun
  /\ calls' = calls + 1

\* ------------------------------------------------------------ getParticlesPtr

getParticlesPtr ==
  /\ calls < limit
  /\ op' = "getParticlesPtr"
  /\ args' = <<dataStart, 0, 0, 0>>
  /\ status' = "ok"
  /\ pre' = particles
  /\ preCount' = particleCount
  /\ preGrid' = grid
  /\ UNCHANGED limit
  /\ preShape' = <<gridWidth, gridHeight>>
  /\ UNCHANGED view
  /\ mid' = <<>>
  /\ tests' = <<>>
  /\ reads' = <<>>
  /\ run' = NoRun
  /\ calls' = calls + 1
  /\ UNCHANGED <<store, born, world>>

\* ------------------------------------------------------------ applyGravity

\* GravityLoop with the speed capped at 25, the range of the initial velocities.
RECURSIVE GravityLoop_Capped(_, _, _, _, _)
GravityLoop_Capped(p, i, count, gravityX, gravityY) ==
  IF i >= count THEN p
  ELSE LET offset == i * PARTICLE_SIZE
           cap(v) == IF v > 25 * Scale THEN 25 * Scale
                     ELSE IF v < (-25) * Scale THEN (-25) * Scale ELSE v
           p1 == Put(p, offset + 2, cap(Get(p, offset + 2) + gravityX))
           p2 == Put(p1, offset + 3, cap(Get(p1, offset + 3) + gravityY))
       IN  GravityLoop_Capped(p2, i + 1, count, gravityX, gravityY)

\* The buffer after loop iterations i, i + 1, ..., count - 1.
RECURSIVE GravityLoop(_, _, _, _, _)
GravityLoop(p, i, count, gravityX, gravityY) ==
  IF i >= count THEN p
  ELSE LET offset == i * PARTICLE_SIZE
           p1 == Add(p, offset + 2, gravityX)
           p2 == Add(p1, offset + 3, gravityY)
       IN  GravityLoop(p2, i + 1, count, gravityX, gravityY)

applyGravity(gravityX, gravityY) ==
  /\ calls < limit
  /\ particles' = GravityLoop(particles, 0, particleCount, gravityX, gravityY)
  /\ UNCHANGED <<particleCount, damping, gridWidth, gridHeight, grid, dataStart,
                 born, world>>
  /\ op' = "applyGravity"
  /\ args' = <<gravityX, gravityY, 0, 0>>
  /\ status' = "ok"
  /\ pre' = particles
  /\ preCount' = particleCount
  /\ preGrid' = grid
  /\ UNCHANGED limit
  /\ preShape' = <<gridWidth, gridHeight>>
  /\ UNCHANGED view
  /\ mid' = <<>>
  /\ tests' = <<>>
  /\ reads' = <<>>
  /\ run' = IF op = "applyGravity" /\ run.gx = gravityX /\ run.gy = gravityY
            THEN [run EXCEPT !.k = run.k + 1]
            ELSE [k |-> 1, gx |-> gravityX, gy |-> gravityY, base |-> particles]
  /\ calls' = calls + 1

\* ------------------------------------------------------------ applyForce

\* ForceOne with the full strength at every distance inside the radius.
ForceOne_NoFalloff(p, i, mouseX, mouseY, forceRadius, strength) ==
  LET offset == i * PARTICLE_SIZE
      radiusSq == Mul(forceRadius, forceRadius)
      dx == Get(p, offset) - mouseX
      dy == Get(p, offset + 1) - mouseY
      distSq == Mul(dx, dx) + Mul(dy, dy)
  IN  IF distSq < radiusSq /\ distSq > MinDistSq
      THEN LET dist == Sqrt(distSq)
               force == strength
               p1 == Add(p, offset + 2, Mul(Div(dx, dist), force))
           IN  Add(p1, offset + 3, Mul(Div(dy, dist), force))
      ELSE p

\* One loop iteration: particle i pushed away from (mouseX, mouseY).
ForceOne(p, i, mouseX, mouseY, forceRadius, strength) ==
  LET offset == i * PARTICLE_SIZE
      radiusSq == Mul(forceRadius, forceRadius)
      dx == Get(p, offset) - mouseX
      dy == Get(p, offset + 1) - mouseY
      distSq == Mul(dx, dx) + Mul(dy, dy)
  IN  IF distSq < radiusSq /\ distSq > MinDistSq
      THEN LET dist == Sqrt(distSq)
               force == Mul(strength, Scale - Div(dist, forceRadius))
               p1 == Add(p, offset + 2, Mul(Div(dx, dist), force))
           IN  Add(p1, offset + 3, Mul(Div(dy, dist), force))
      ELSE p

RECURSIVE ForceLoop(_, _, _, _, _, _, _)
ForceLoop(p, i, count, mouseX, mouseY, forceRadius, strength) ==
  IF i >= count THEN p
  ELSE ForceLoop(ForceOne(p, i, mouseX, mouseY, forceRadius, strength),
                 i + 1, count, mouseX, mouseY, forceRadius, strength)

applyForce(mouseX, mouseY, forceRadius, strength) ==
  /\ calls < limit
  /\ particles' = ForceLoop(particles, 0, particleCount,
                            mouseX, mouseY, forceRadius, strength)
  /\ UNCHANGED <<particleCount, damping, gridWidth, gridHeight, grid, dataStart,
                 born, world>>
  /\ op' = "applyForce"
  /\ args' = <<mouseX, mouseY, forceRadius, strength>>
  /\ status' = "ok"
  /\ pre' = particles
  /\ preCount' = particleCount
  /\ preGrid' = grid
  /\ UNCHANGED limit
  /\ preShape' = <<gridWidth, gridHeight>>
  /\ UNCHANGED view
  /\ mid' = <<>>
  /\ tests' = <<>>
  /\ reads' = <<>>
  /\ run' = NoRun
  /\ calls' = calls + 1

\* ------------------------------------------------------------ updateParticles

\* IntegrateOne with the wall reflecting the velocity as it was before damping.
IntegrateOne_UndampedRebound(p, i, dt, width, height, damp) ==
  LET offset == i * PARTICLE_SIZE
      radius == Get(p, offset + 4)
      x0 == Get(p, offset) + Mul(Get(p, offset + 2), dt)
      y0 == Get(p, offset + 1) + Mul(Get(p, offset + 3), dt)
      vx0 == Get(p, offset + 2)
      vy0 == Get(p, offset + 3)
      x == IF x0 - radius < 0 THEN radius
           ELSE IF x0 + radius > width THEN width - radius ELSE x0
      vx == IF x0 - radius < 0 THEN Mul(Abs(vx0), WallRestitution)
            ELSE IF x0 + radius > width THEN Mul(-Abs(vx0), WallRestitution)
            ELSE Mul(vx0, damp)
      y == IF y0 - radius < 0 THEN radius
           ELSE IF y0 + radius > height THEN height - radius ELSE y0
      vy == IF y0 - radius < 0 THEN Mul(Abs(vy0), WallRestitution)
            ELSE IF y0 + radius > height THEN Mul(-Abs(vy0), WallRestitution)
            ELSE Mul(vy0, damp)
  IN  Put(Put(Put(Put(p, offset, x), offset + 1, y), offset + 2, vx),
          offset + 3, vy)

\* IntegrateOne with the wall reversing the velocity's sign instead of
\* assigning it: -v * 0.8 at both walls.
IntegrateOne_FlipsSign(p, i, dt, width, height, damp) ==
  LET offset == i * PARTICLE_SIZE
      radius == Get(p, offset + 4)
      x0 == Get(p, offset) + Mul(Get(p, offset + 2), dt)
      y0 == Get(p, offset + 1) + Mul(Get(p, offset + 3), dt)
      vx0 == Mul(Get(p, offset + 2), damp)
      vy0 == Mul(Get(p, offset + 3), damp)
      x == IF x0 - radius < 0 THEN radius
           ELSE IF x0 + radius > width THEN width - radius ELSE x0
      vx == IF x0 - radius < 0 \/ x0 + radius > width
            THEN Mul(-vx0, WallRestitution) ELSE vx0
      y == IF y0 - radius < 0 THEN radius
           ELSE IF y0 + radius > height THEN height - radius ELSE y0
      vy == IF y0 - radius < 0 \/ y0 + radius > height
            THEN Mul(-vy0, WallRestitution) ELSE vy0
  IN  Put(Put(Put(Put(p, offset, x), offset + 1, y), offset + 2, vx),
          offset + 3, vy)

\* One iteration of the integrate loop (lines 57-96): particle i moved by
\* its velocity, damped, and confined to [0, width] x [0, height].
IntegrateOne(p, i, dt, width, height, damp) ==
  LET offset == i * PARTICLE_SIZE
      radius == Get(p, offset + 4)
      x0 == Get(p, offset) + Mul(Get(p, offset + 2), dt)
      y0 == Get(p, offset + 1) + Mul(Get(p, offset + 3), dt)
      vx0 == Mul(Get(p, offset + 2), damp)
      vy0 == Mul(Get(p, offset + 3), damp)
      x == IF x0 - radius < 0 THEN radius
           ELSE IF x0 + radius > width THEN width - radius ELSE x0
      vx == IF x0 - radius < 0 THEN Mul(Abs(vx0), WallRestitution)
            ELSE IF x0 + radius > width THEN Mul(-Abs(vx0), WallRestitution)
            ELSE vx0
      y == IF y0 - radius < 0 THEN radius
           ELSE IF y0 + radius > height THEN height - radius ELSE y0
      vy == IF y0 - radius < 0 THEN Mul(Abs(vy0), WallRestitution)
            ELSE IF y0 + radius > height THEN Mul(-Abs(vy0), WallRestitution)
            ELSE vy0
  IN  Put(Put(Put(Put(p, offset, x), offset + 1, y), offset + 2, vx),
          offset + 3, vy)

RECURSIVE IntegrateLoop(_, _, _, _, _, _, _)
IntegrateLoop(p, i, count, dt, width, height, damp) ==
  IF i >= count THEN p
  ELSE IntegrateLoop(IntegrateOne(p, i, dt, width, height, damp),
                     i + 1, count, dt, width, height, damp)

\* GridDim with the quotient rounded up instead of truncated.
GridDim_Ceil(extent) == (extent + gridCellSize - 1) \div gridCellSize + 1

\* buildGrid, lines 201-203: the grid's dimensions.
GridDim(extent) == Trunc(extent, gridCellSize) + 1

\* buildGrid, lines 219-232: particles i, i + 1, ... pushed to their cells.
\* FillGrid putting each slot index at the front of its cell.
RECURSIVE FillGrid_Prepends(_, _, _, _, _, _)
FillGrid_Prepends(g, p, i, count, gw, gh) ==
  IF i >= count THEN g
  ELSE LET offset == i * PARTICLE_SIZE
           cellX == Trunc(Get(p, offset), gridCellSize)
           cellY == Trunc(Get(p, offset + 1), gridCellSize)
           g1 == IF cellX >= 0 /\ cellX < gw /\ cellY >= 0 /\ cellY < gh
                 THEN LET cellIndex == cellY * gw + cellX
                      IN  [g EXCEPT ![cellIndex + 1] = <<i>> \o @]
                 ELSE g
       IN  FillGrid_Prepends(g1, p, i + 1, count, gw, gh)

RECURSIVE FillGrid(_, _, _, _, _, _)
FillGrid(g, p, i, count, gw, gh) ==
  IF i >= count THEN g
  ELSE LET offset == i * PARTICLE_SIZE
           cellX == Trunc(Get(p, offset), gridCellSize)
           cellY == Trunc(Get(p, offset + 1), gridCellSize)
           g1 == IF cellX >= 0 /\ cellX < gw /\ cellY >= 0 /\ cellY < gh
                 THEN LET cellIndex == cellY * gw + cellX
                      IN  [g EXCEPT ![cellIndex + 1] = Append(@, i)]
                 ELSE g
       IN  FillGrid(g1, p, i + 1, count, gw, gh)

\* EmptyCells with the cells of a reused grid left as they were.
EmptyCells_KeepContents(g, totalCells) ==
  IF Len(g) # totalCells THEN [c \in 1..totalCells |-> <<>>] ELSE g

\* buildGrid, lines 206-216: the cells before the particles are assigned:
\* a fresh array of empty cells, or the old cells with their length set to 0.
EmptyCells(g, totalCells) ==
  IF Len(g) # totalCells
  THEN [c \in 1..totalCells |-> <<>>]
  ELSE [c \in 1..totalCells |-> SubSeq(g[c], 1, 0)]

\* buildGrid returning before it touches the cells when there is no particle
\* to assign.
buildGrid_SkipsEmptyStore(p, count, g, width, height) ==
  LET gw == GridDim(width)
      gh == GridDim(height)
  IN  [gridWidth |-> gw, gridHeight |-> gh,
       grid |-> IF count = 0 THEN g
                ELSE FillGrid(EmptyCells(g, gw * gh), p, 0, count, gw, gh)]

\* buildGrid (lines 200-233): the grid's shape and its cells.
buildGrid(p, count, g, width, height) ==
  LET gw == GridDim(width)
      gh == GridDim(height)
  IN  [gridWidth |-> gw, gridHeight |-> gh,
       grid |-> FillGrid(EmptyCells(g, gw * gh), p, 0, count, gw, gh)]

\* The narrow phase of lines 149-192 for particle i, whose fields were read
\* into loc = <<x1, y1, vx1, vy1, r1, m1>> when its scan began, and
\* particle j, read from the buffer now.
Narrow(p, i, j, loc) ==
  LET offset2 == j * PARTICLE_SIZE
      dx == Get(p, offset2) - loc[1]
      dy == Get(p, offset2 + 1) - loc[2]
      distSq == Mul(dx, dx) + Mul(dy, dy)
      minDist == loc[5] + Get(p, offset2 + 4)
      dist == Sqrt(distSq)
      nx == Div(dx, dist)
      ny == Div(dy, dist)
      hit == distSq < Mul(minDist, minDist) /\ distSq > MinDistSq
  IN  [hit |-> hit,
       nx |-> IF hit THEN nx ELSE 0,
       ny |-> IF hit THEN ny ELSE 0,
       dvn |-> IF hit
               THEN Mul(Get(p, offset2 + 2) - loc[3], nx)
                      + Mul(Get(p, offset2 + 3) - loc[4], ny)
               ELSE 0,
       overlap |-> IF hit THEN minDist - dist ELSE 0]

\* Resolves with the skip the comment on line 171 describes: a pair is left
\* alone when it is separating (dvn > 0).
Resolves_SkipsSeparating(t) == t.hit /\ ~(t.dvn > 0)

\* Whether the pair is resolved: it overlaps and line 172 does not skip it.
Resolves(t) == t.hit /\ ~(t.dvn < 0)

\* ResolvePair with particle j's velocity change weighted by its own mass.
ResolvePair_OwnMass(p, i, j, loc) ==
  LET offset1 == i * PARTICLE_SIZE
      offset2 == j * PARTICLE_SIZE
      m1 == loc[6]
      m2 == Get(p, offset2 + 5)
      Respond(t, impulse, separationRatio) ==
        LET
          p1 == Add(p, offset1 + 2, Mul(Mul(impulse, m2), t.nx))
          p2 == Add(p1, offset1 + 3, Mul(Mul(impulse, m2), t.ny))
          p3 == Add(p2, offset2 + 2, -Mul(Mul(impulse, m2), t.nx))
          p4 == Add(p3, offset2 + 3, -Mul(Mul(impulse, m2), t.ny))
          p5 == Add(p4, offset1, -Mul(Mul(t.nx, separationRatio), m2))
          p6 == Add(p5, offset1 + 1, -Mul(Mul(t.ny, separationRatio), m2))
          p7 == Add(p6, offset2, Mul(Mul(t.nx, separationRatio), m1))
        IN  IF Resolves(t)
            THEN Add(p7, offset2 + 1, Mul(Mul(t.ny, separationRatio), m1))
            ELSE p
  IN  Respond(Narrow(p, i, j, loc),
              Mul(Div(2 * Narrow(p, i, j, loc).dvn, m1 + m2), restitution),
              Div(Narrow(p, i, j, loc).overlap, m1 + m2))

\* Lines 174-191: the impulse and the positional correction.
ResolvePair(p, i, j, loc) ==
  LET offset1 == i * PARTICLE_SIZE
      offset2 == j * PARTICLE_SIZE
      m1 == loc[6]
      m2 == Get(p, offset2 + 5)
      Respond(t, impulse, separationRatio) ==
        LET
          p1 == Add(p, offset1 + 2, Mul(Mul(impulse, m2), t.nx))
          p2 == Add(p1, offset1 + 3, Mul(Mul(impulse, m2), t.ny))
          p3 == Add(p2, offset2 + 2, -Mul(Mul(impulse, m1), t.nx))
          p4 == Add(p3, offset2 + 3, -Mul(Mul(impulse, m1), t.ny))
          p5 == Add(p4, offset1, -Mul(Mul(t.nx, separationRatio), m2))
          p6 == Add(p5, offset1 + 1, -Mul(Mul(t.ny, separationRatio), m2))
          p7 == Add(p6, offset2, Mul(Mul(t.nx, separationRatio), m1))
        IN  IF Resolves(t)
            THEN Add(p7, offset2 + 1, Mul(Mul(t.ny, separationRatio), m1))
            ELSE p
  IN  Respond(Narrow(p, i, j, loc),
              Mul(Div(2 * Narrow(p, i, j, loc).dvn, m1 + m2), restitution),
              Div(Narrow(p, i, j, loc).overlap, m1 + m2))

\* What the pass keeps of one narrow-phase evaluation of the pair (i, j).
TestRecord(p, i, j, loc) ==
  [i |-> i, j |-> j, t |-> Narrow(p, i, j, loc),
   before |-> p, after |-> ResolvePair(p, i, j, loc)]

\* ScanCell skipping only the scanning particle itself (j = i).
RECURSIVE ScanCell_SkipsSelfOnly(_, _, _, _, _)
ScanCell_SkipsSelfOnly(s, i, loc, cell, k) ==
  IF k >= Len(cell) THEN s
  ELSE LET j == cell[k + 1]
       IN  IF j = i THEN ScanCell_SkipsSelfOnly(s, i, loc, cell, k + 1)
           ELSE ScanCell_SkipsSelfOnly(
                  [s EXCEPT !.p = ResolvePair(s.p, i, j, loc),
                            !.tests = Append(@, TestRecord(s.p, i, j, loc))],
                  i, loc, cell, k + 1)

\* Lines 135-193: the candidates cell[k], cell[k + 1], ... of one cell.
\* s = [p |-> the buffer, tests |-> the evaluations so far,
\* cells |-> the cell indices read so far].
RECURSIVE ScanCell(_, _, _, _, _)
ScanCell(s, i, loc, cell, k) ==
  IF k >= Len(cell) THEN s
  ELSE LET j == cell[k + 1]
       IN  IF j <= i THEN ScanCell(s, i, loc, cell, k + 1)
           ELSE ScanCell([s EXCEPT !.p = ResolvePair(s.p, i, j, loc),
                                   !.tests = Append(@, TestRecord(s.p, i, j, loc))],
                         i, loc, cell, k + 1)

\* Lines 116-195: neighbour cells n, n + 1, ..., 8 of cell (cellX, cellY),
\* rows first (offsetY outer, offsetX inner).
RECURSIVE ScanNeighbours(_, _, _, _, _, _, _, _, _)
ScanNeighbours(s, i, loc, g, gw, gh, cellX, cellY, n) ==
  IF n > 8 THEN s
  ELSE LET checkCellX == cellX + (n % 3) - 1
           checkCellY == cellY + (n \div 3) - 1
           s1 == IF \/ checkCellX < 0 \/ checkCellX >= gw
                    \/ checkCellY < 0 \/ checkCellY >= gh
                 THEN s
                 ELSE LET cellIndex == checkCellY * gw + checkCellX
                      IN  ScanCell([s EXCEPT !.cells = Append(@, cellIndex)],
                                   i, loc, g[cellIndex + 1], 0)
       IN  ScanNeighbours(s1, i, loc, g, gw, gh, cellX, cellY, n + 1)

\* Lines 102-196: the scans of particles i, i + 1, ..., count - 1.
RECURSIVE CollideLoop(_, _, _, _, _, _)
CollideLoop(s, i, count, g, gw, gh) ==
  IF i >= count THEN s
  ELSE LET offset1 == i * PARTICLE_SIZE
           loc == SubSeq(s.p, offset1 + 1, offset1 + PARTICLE_SIZE)
           cellX == Trunc(loc[1], gridCellSize)
           cellY == Trunc(loc[2], gridCellSize)
       IN  CollideLoop(ScanNeighbours(s, i, loc, g, gw, gh, cellX, cellY, 0),
                       i + 1, count, g, gw, gh)

\* The all-pairs pass of the second updateParticles (lines 363-427).
\* Lines 373-426: particles j, j + 1, ..., count - 1 against particle i,
\* whose fields were read into loc when its scan began.
RECURSIVE BruteInner(_, _, _, _, _)
BruteInner(p, i, loc, j, count) ==
  IF j >= count THEN p
  ELSE BruteInner(ResolvePair(p, i, j, loc), i, loc, j + 1, count)

\* Lines 364-427: the scans of particles i, i + 1, ..., count - 2.
RECURSIVE BruteLoop(_, _, _)
BruteLoop(p, i, count) ==
  IF i >= count - 1 THEN p
  ELSE LET offset1 == i * PARTICLE_SIZE
           loc == SubSeq(p, offset1 + 1, offset1 + PARTICLE_SIZE)
       IN  BruteLoop(BruteInner(p, i, loc, i + 1, count), i + 1, count)

\* The second updateParticles (lines 318-428) on buffer p: the integrate
\* loop, then the all-pairs pass.
BruteStep(p, count, deltaTime, width, height, damp) ==
  BruteLoop(IntegrateLoop(p, 0, count, deltaTime, width, height, damp),
            0, count)

updateParticles(deltaTime, width, height) ==
  LET moved == IntegrateLoop(particles, 0, particleCount,
                             deltaTime, width, height, damping)
      b == buildGrid(moved, particleCount, grid, width, height)
      totalCells == b.gridWidth * b.gridHeight
      fails == Len(grid) # totalCells /\ AllocFails(totalCells)
      s == CollideLoop([p |-> moved, tests |-> <<>>, cells |-> <<>>],
                       0, particleCount,
                       b.grid, b.gridWidth, b.gridHeight)
  IN  /\ calls < limit
      /\ gridWidth' = b.gridWidth
      /\ gridHeight' = b.gridHeight
      /\ IF fails
         THEN /\ status' = "abort"
              /\ particles' = moved
              /\ tests' = <<>>
              /\ reads' = <<>>
              /\ UNCHANGED grid
         ELSE /\ status' = "ok"
              /\ particles' = s.p
              /\ tests' = s.tests
              /\ reads' = s.cells
              /\ grid' = b.grid
      /\ UNCHANGED <<particleCount, damping, dataStart, born>>
      /\ world' = <<world[1], world[2],
                     world[3] /\ width = world[1] /\ height = world[2]>>
      /\ op' = "updateParticles"
      /\ args' = <<deltaTime, width, height, 0>>
      /\ pre' = particles
      /\ preCount' = particleCount
      /\ preGrid' = grid
      /\ UNCHANGED limit
      /\ preShape' = <<gridWidth, gridHeight>>
      /\ UNCHANGED view
      /\ mid' = moved
      /\ run' = NoRun
      /\ calls' = calls + 1

\* ------------------------------------------------------------ the host loop

\* main.ts, line 197: the record size the host multiplies the count by.
HOST_PARTICLE_SIZE == 8

\* wasm.applyGravity(0, 10) of every frame.
HostGravity == <<0, 10 * Scale>>

\* wasm.applyForce(mouseX, mouseY, 150, 150) of a frame with the mouse down,
\* in the proportions of the worlds above.
HostForce == <<20 * Scale, 20 * Scale, 16 * Scale, 100 * Scale>>

\* deltaTime, canvas.width and canvas.height of a frame.
HostFrames == { <<Scale \div 2, 40 * Scale, 40 * Scale>> }

\* One frame of animate (main.ts, lines 230-274) of a host whose main
\* initialised the store with PARTICLE_COUNT particles: gravity, the mouse
\* force, the step, and the view handed to renderer.render.  pulled, pushed
\* and moved are the buffer after applyGravity, after applyForce and after
\* the integrate loop of updateParticles.
animate(PARTICLE_COUNT, mouseDown, deltaTime, width, height) ==
  /\ calls < limit
  /\ PARTICLE_COUNT > 0
  /\ particleCount = PARTICLE_COUNT
  /\ Len(particles) = PARTICLE_COUNT * PARTICLE_SIZE
  /\ \E pulled \in { GravityLoop(particles, 0, particleCount,
                                 HostGravity[1], HostGravity[2]) } :
     \E pushed \in { IF mouseDown
                     THEN ForceLoop(pulled, 0, particleCount, HostForce[1],
                                    HostForce[2], HostForce[3], HostForce[4])
                     ELSE pulled } :
     \E moved \in { IntegrateLoop(pushed, 0, particleCount,
                                  deltaTime, width, height, damping) } :
       LET b == buildGrid(moved, particleCount, grid, width, height)
           totalCells == b.gridWidth * b.gridHeight
           fails == Len(grid) # totalCells /\ AllocFails(totalCells)
           s == CollideLoop([p |-> moved, tests |-> <<>>, cells |-> <<>>],
                            0, particleCount,
                            b.grid, b.gridWidth, b.gridHeight)
       IN  /\ gridWidth' = b.gridWidth
           /\ gridHeight' = b.gridHeight
           /\ IF fails
              THEN /\ status' = "abort"
                   /\ particles' = moved
                   /\ tests' = <<>>
                   /\ reads' = <<>>
                   /\ UNCHANGED <<grid, view>>
              ELSE /\ status' = "ok"
                   /\ particles' = s.p
                   /\ tests' = s.tests
                   /\ reads' = s.cells
                   /\ grid' = b.grid
                   /\ view' = [ptr |-> dataStart,
                               length |-> PARTICLE_COUNT * HOST_PARTICLE_SIZE]
           /\ mid' = moved
  /\ UNCHANGED <<particleCount, damping, dataStart, born>>
  /\ world' = <<world[1], world[2],
                 world[3] /\ width = world[1] /\ height = world[2]>>
  /\ op' = "animate"
  /\ args' = <<deltaTime, width, height, 0>>
  /\ pre' = particles
  /\ preCount' = particleCount
  /\ preGrid' = grid
  /\ UNCHANGED limit
  /\ preShape' = <<gridWidth, gridHeight>>
  /\ run' = NoRun
  /\ calls' = calls + 1

\* ------------------------------------------------------------ specification

\* The module's state after instantiation (lines 6-14).
Instantiated ==
  /\ particleCount = 0
  /\ particles = <<>>
  /\ damping = RoundDiv(999 * Scale, 1000)
  /\ gridWidth = 0
  /\ gridHeight = 0
  /\ grid = <<>>
  /\ dataStart = 0
  /\ op = "none"
  /\ args = <<0, 0, 0, 0>>
  /\ status = "ok"
  /\ pre = <<>>
  /\ preCount = 0
  /\ mid = <<>>
  /\ tests = <<>>
  /\ run = NoRun
  /\ born = <<>>
  /\ world = <<0, 0, TRUE>>
  /\ calls = 0
  /\ preGrid = <<>>
  /\ view = [ptr |-> 0, length |-> 0]
  /\ reads = <<>>
  /\ preShape = <<0, 0>>

Init == Instantiated /\ limit = MaxCalls

Next ==
  \/ \E a \in InitArgs : initParticles(a[1], a[2], a[3], a[4])
  \/ getParticlesPtr
  \/ \E a \in GravityArgs : applyGravity(a[1], a[2])
  \/ \E a \in ForceArgs : applyForce(a[1], a[2], a[3], a[4])
  \/ \E a \in StepArgs : updateParticles(a[1], a[2], a[3])
  \/ \E n \in {a[1] : a \in InitArgs}, mouseDown \in BOOLEAN, a \in HostFrames :
       animate(n, mouseDown, a[1], a[2], a[3])

Spec == Init /\ [][Next]_vars

\* ------------------------------------------------------------ reuse

\* Behaviours long enough for a step to meet what an earlier step and an
\* earlier, larger population left in the store: populations of 3, 2 and 0
\* particles, and steps in worlds whose grids are 4 x 3, 3 x 4 and 3 x 3
\* cells, with gravity and the mouse force between them.
ReuseInitArgs == { a \in InitArgs : a[1] \in {0, 2, 3} /\ a[2] > 0 /\ a[4] = Scale }

ReuseStepArgs ==
  { <<Scale \div 2, 60 * Scale, 40 * Scale>>,
    <<Scale \div 2, 40 * Scale, 60 * Scale>>,
    <<0, 40 * Scale, 40 * Scale>> }

InitReuse == Instantiated /\ limit = MaxReuseCalls

NextReuse ==
  \/ \E a \in ReuseInitArgs : initParticles(a[1], a[2], a[3], a[4])
  \/ applyGravity(HostGravity[1], HostGravity[2])
  \/ applyForce(HostForce[1], HostForce[2], HostForce[3], HostForce[4])
  \/ \E a \in ReuseStepArgs : updateParticles(a[1], a[2], a[3])

SpecReuse == InitReuse /\ [][NextReuse]_vars

\* ------------------------------------------------------------ properties

\* The slots of the live particles.
Slots == 0..(particleCount - 1)

\* The last call was updateParticles and it returned.
Stepped == op = "updateParticles" /\ status = "ok"

\* C1: after initialize(count, width, height, damping) and any calls, with
\* every step given that width and height, a step ends with every particle
\* inside the walls: radius <= x <= width - radius, radius <= y <= height -
\* radius.
C1_StepEndsInsideWalls ==
  (Stepped /\ world[3] /\ world[1] > 0 /\ world[2] > 0) =>
    \A i \in Slots :
      /\ Radius(particles, i) <= X(particles, i)
      /\ X(particles, i) <= world[1] - Radius(particles, i)
      /\ Radius(particles, i) <= Y(particles, i)
      /\ Y(particles, i) <= world[2] - Radius(particles, i)

\* A narrow-phase evaluation of the claim's scenario: two particles of
\* radius 5, centres 8 apart on the x-axis, x-velocities 10 toward each other.
HeadOn(e) ==
  LET b == e.before
      lo == IF X(b, e.i) < X(b, e.j) THEN e.i ELSE e.j
      hi == IF X(b, e.i) < X(b, e.j) THEN e.j ELSE e.i
  IN  /\ Radius(b, e.i) = 5 * Scale /\ Radius(b, e.j) = 5 * Scale
      /\ Y(b, e.i) = Y(b, e.j)
      /\ X(b, hi) - X(b, lo) = 8 * Scale
      /\ VX(b, lo) = 10 * Scale /\ VX(b, hi) = (-10) * Scale

\* C2: one resolution pass over the head-on scenario reverses the sign of
\* both x-velocities and moves the centres apart by at least the overlap 2.
C2_HeadOnPairBounces ==
  \A n \in 1..Len(tests) :
    LET e == tests[n]
        b == e.before
        lo == IF X(b, e.i) < X(b, e.j) THEN e.i ELSE e.j
        hi == IF X(b, e.i) < X(b, e.j) THEN e.j ELSE e.i
    IN  HeadOn(e) =>
          /\ VX(e.after, lo) < 0
          /\ VX(e.after, hi) > 0
          /\ X(e.after, hi) - X(e.after, lo) >= 10 * Scale

\* The pair of evaluation e overlaps and its centres are moving apart along
\* the line joining them: (v_j - v_i) . (p_j - p_i) > 0.
MovingApart(e) ==
  LET b == e.before
  IN  /\ e.t.hit
      /\ (VX(b, e.j) - VX(b, e.i)) * (X(b, e.j) - X(b, e.i))
           + (VY(b, e.j) - VY(b, e.i)) * (Y(b, e.j) - Y(b, e.i)) > 0

\* C3: the resolver changes neither the velocity nor the position of an
\* overlapping pair that is moving apart.
C3_SeparatingPairUntouched ==
  \A n \in 1..Len(tests) : MovingApart(tests[n]) => tests[n].after = tests[n].before

\* The pair's total momentum m_i * v_i + m_j * v_j in buffer b, per axis
\* (in 1/Scale^2 units: the products are not rounded).
MomentumX(b, i, j) == Mass(b, i) * VX(b, i) + Mass(b, j) * VX(b, j)
MomentumY(b, i, j) == Mass(b, i) * VY(b, i) + Mass(b, j) * VY(b, j)

\* The momentum products left of 1/Scale by the rounding of the four stored
\* increments: each increment is within one 1/Scale of impulse * m * n.
MomentumSlack(b, i, j) == Mass(b, i) + Mass(b, j)

\* The increments impulse * m * n of evaluation e fall on multiples of
\* 1/Scale, so that storing them rounds nothing.
ExactIncrements(e) ==
  LET b == e.before
      m1 == Mass(b, e.i)
      m2 == Mass(b, e.j)
      impulse == Mul(Div(2 * e.t.dvn, m1 + m2), restitution)
  IN  \A m \in {m1, m2} : \A n \in {e.t.nx, e.t.ny} :
        /\ (impulse * m) % Scale = 0
        /\ (((impulse * m) \div Scale) * n) % Scale = 0

\* C4: whenever the resolver applies an impulse to a pair (i, j), the pair's
\* total momentum m_i * v_i + m_j * v_j is the same before and after the
\* velocity update on both axes, for every pair of masses: identical when
\* the stored increments are exact, and otherwise within their rounding.
C4_MomentumConserved ==
  \A n \in 1..Len(tests) :
    LET e == tests[n]
        dpx == MomentumX(e.after, e.i, e.j) - MomentumX(e.before, e.i, e.j)
        dpy == MomentumY(e.after, e.i, e.j) - MomentumY(e.before, e.i, e.j)
    IN  Resolves(e.t) =>
          /\ Abs(dpx) <= MomentumSlack(e.before, e.i, e.j)
          /\ Abs(dpy) <= MomentumSlack(e.before, e.i, e.j)
          /\ ExactIncrements(e) => (dpx = 0 /\ dpy = 0)

\* A pair of unequal masses was resolved with an impulse that changed both
\* velocities.
C4_Witness ==
  \E n \in 1..Len(tests) :
    LET e == tests[n]
    IN  /\ Resolves(e.t)
        /\ Mass(e.before, e.i) # Mass(e.before, e.j)
        /\ VX(e.after, e.i) # VX(e.before, e.i)
        /\ VX(e.after, e.j) # VX(e.before, e.j)

\* Particle i is in a pair that the last step's collision pass resolved.
InResolvedPair(i) ==
  \E n \in 1..Len(tests) :
    Resolves(tests[n].t) /\ (tests[n].i = i \/ tests[n].j = i)

\* C5 (original wording): a particle touching a wall with velocity v directed
\* into it leaves one step with the normal component pointing away from the
\* wall and of magnitude exactly 0.8 * |v|.
C5_ReboundIsEightTenths ==
  Stepped =>
    \A i \in Slots :
      LET r == Radius(pre, i)
      IN  /\ (X(pre, i) = r /\ VX(pre, i) < 0) =>
               (VX(particles, i) > 0
                  /\ VX(particles, i) = Mul(-VX(pre, i), WallRestitution))
          /\ (X(pre, i) = args[2] - r /\ VX(pre, i) > 0) =>
               (VX(particles, i) < 0
                  /\ VX(particles, i) = -Mul(VX(pre, i), WallRestitution))
          /\ (Y(pre, i) = r /\ VY(pre, i) < 0) =>
               (VY(particles, i) > 0
                  /\ VY(particles, i) = Mul(-VY(pre, i), WallRestitution))
          /\ (Y(pre, i) = args[3] - r /\ VY(pre, i) > 0) =>
               (VY(particles, i) < 0
                  /\ VY(particles, i) = -Mul(VY(pre, i), WallRestitution))

\* Particle i touched the low wall of an axis (position pos = radius) with
\* velocity v into it, and its move v * dt carried its edge past the wall.
HitsLowWall(pos, v, r, dt) == pos = r /\ v < 0 /\ pos + Mul(v, dt) - r < 0

\* The same for the high wall at extent; the source examines it only when the
\* low wall was not crossed.
HitsHighWall(pos, v, r, dt, extent) ==
  /\ pos = extent - r /\ v > 0
  /\ pos + Mul(v, dt) + r > extent
  /\ ~(pos + Mul(v, dt) - r < 0)

\* C5 (amended): a particle touching a wall with velocity v into it, whose
\* move v * dt carries its edge past the wall, leaves the integrate stage
\* with the normal component pointing away from the wall and of magnitude
\* 0.8 * damping * |v|; that is its velocity at the end of the step unless
\* the collision pass resolves a pair it belongs to.
C5_ReboundIsDampedEightTenths ==
  Stepped =>
    \A i \in Slots :
      LET r == Radius(pre, i)
          dt == args[1]
          outX == Mul(Mul(Abs(VX(pre, i)), damping), WallRestitution)
          outY == Mul(Mul(Abs(VY(pre, i)), damping), WallRestitution)
      IN  /\ HitsLowWall(X(pre, i), VX(pre, i), r, dt) =>
               (VX(mid, i) = outX /\ VX(mid, i) >= 0)
          /\ HitsHighWall(X(pre, i), VX(pre, i), r, dt, args[2]) =>
               (VX(mid, i) = -outX /\ VX(mid, i) <= 0)
          /\ HitsLowWall(Y(pre, i), VY(pre, i), r, dt) =>
               (VY(mid, i) = outY /\ VY(mid, i) >= 0)
          /\ HitsHighWall(Y(pre, i), VY(pre, i), r, dt, args[3]) =>
               (VY(mid, i) = -outY /\ VY(mid, i) <= 0)
          /\ ~InResolvedPair(i) =>
               (VX(particles, i) = VX(mid, i) /\ VY(particles, i) = VY(mid, i))

\* A step with damping below 1 in which one particle hit a low wall and one
\* hit a high wall.
C5_Witness ==
  /\ Stepped
  /\ damping < Scale
  /\ \E i \in Slots :
       HitsLowWall(X(pre, i), VX(pre, i), Radius(pre, i), args[1])
  /\ \E i \in Slots :
       HitsHighWall(Y(pre, i), VY(pre, i), Radius(pre, i), args[1], args[3])

C7_LengthIsCountTimesSix ==
  /\ Len(particles) = particleCount * PARTICLE_SIZE
  /\ op = "initParticles" => particleCount = args[1]
  /\ op \notin {"initParticles", "none"} =>
       (particleCount = preCount /\ Len(particles) = Len(pre))

\* The last call broke a precondition of the interface.
BrokePrecondition ==
  \/ op = "initParticles" /\ (args[1] < 0 \/ args[2] <= 0 \/ args[3] <= 0)
  \/ op = "applyForce" /\ args[3] <= 0

\* C8: a call that breaks a precondition (count < 0, width <= 0, height <= 0,
\* forceRadius <= 0) ends in an error or abort: it never returns normally and
\* never changes a velocity or the particle count.
C8_BadCallsFailLoudly ==
  BrokePrecondition =>
    /\ status = "abort"
    /\ particleCount = preCount
    /\ op = "applyForce" => particles = pre

\* What applyForce(mouseX, mouseY, forceRadius, strength) adds to the velocity
\* of a particle at (x, y): nothing at squared distance <= 0.01 or
\* >= forceRadius^2, else strength * (1 - d / forceRadius) along the unit
\* vector from the point to the particle.
ForcePush(x, y, mouseX, mouseY, forceRadius, strength) ==
  LET dx == x - mouseX
      dy == y - mouseY
      distSq == Mul(dx, dx) + Mul(dy, dy)
      d == Sqrt(distSq)
      size == Mul(strength, Scale - Div(d, forceRadius))
  IN  IF distSq <= MinDistSq \/ distSq >= Mul(forceRadius, forceRadius)
      THEN <<0, 0>>
      ELSE <<Mul(Div(dx, d), size), Mul(Div(dy, d), size)>>

\* C9: applyForce leaves every particle at squared distance <= 0.01 or
\* >= forceRadius^2 unchanged, changes no position, radius or mass, and adds
\* to every other velocity strength * (1 - d / forceRadius) along the unit
\* vector from the point: half of strength at d = forceRadius / 2.
C9_ForceFallsOffLinearly ==
  op = "applyForce" =>
    /\ Len(particles) = Len(pre)
    /\ \A i \in 0..(Records(pre) - 1) :
         LET push == IF i \in Slots
                     THEN ForcePush(X(pre, i), Y(pre, i),
                                    args[1], args[2], args[3], args[4])
                     ELSE <<0, 0>>
             dx == X(pre, i) - args[1]
         IN  /\ X(particles, i) = X(pre, i)
             /\ Y(particles, i) = Y(pre, i)
             /\ Radius(particles, i) = Radius(pre, i)
             /\ Mass(particles, i) = Mass(pre, i)
             /\ VX(particles, i) = VX(pre, i) + push[1]
             /\ VY(particles, i) = VY(pre, i) + push[2]
             /\ (i \in Slots /\ args[3] > 0 /\ Y(pre, i) = args[2]
                   /\ 2 * Abs(dx) = args[3]) =>
                  /\ 2 * Abs(VX(particles, i) - VX(pre, i)) = args[4]
                  /\ (VX(particles, i) - VX(pre, i)) * dx > 0
                  /\ VY(particles, i) = VY(pre, i)

\* A force applied at the exact centre of one particle, with another at half
\* the force radius: the first kept its velocity, the second gained half of
\* the strength.
C9_Witness ==
  /\ op = "applyForce"
  /\ args[3] > 0
  /\ \E i \in Slots :
       /\ X(pre, i) = args[1] /\ Y(pre, i) = args[2]
       /\ VX(particles, i) = VX(pre, i) /\ VY(particles, i) = VY(pre, i)
  /\ \E i \in Slots :
       /\ Y(pre, i) = args[2] /\ 2 * Abs(X(pre, i) - args[1]) = args[3]
       /\ 2 * Abs(VX(particles, i) - VX(pre, i)) = args[4]

\* C10: applyGravity(gx, gy) adds exactly (gx, gy) to every particle's
\* velocity, with no condition and no clamping, and changes no position,
\* radius or mass; k calls in a row add k * (gx, gy).
C10_GravityAddsExactly ==
  op = "applyGravity" =>
    /\ Len(particles) = Len(pre)
    /\ Len(particles) = Len(run.base)
    /\ \A i \in 0..(Records(pre) - 1) :
         LET live == IF i \in Slots THEN 1 ELSE 0
         IN  /\ X(particles, i) = X(run.base, i)
             /\ Y(particles, i) = Y(run.base, i)
             /\ Radius(particles, i) = Radius(run.base, i)
             /\ Mass(particles, i) = Mass(run.base, i)
             /\ VX(particles, i) = VX(pre, i) + live * args[1]
             /\ VY(particles, i) = VY(pre, i) + live * args[2]
             /\ VX(particles, i) = VX(run.base, i) + live * run.k * args[1]
             /\ VY(particles, i) = VY(run.base, i) + live * run.k * args[2]

\* Two equal applyGravity calls in a row on two particles.
C10_Witness ==
  /\ op = "applyGravity"
  /\ run.k = 2
  /\ particleCount = 2
  /\ args[2] # 0

\* C11: after every frame of the host loop the view handed to the renderer
\* starts at the store's current pointer and has exactly count * 6 elements,
\* so that it ends where the particle records end.
C11_ViewCoversTheRecords ==
  (op = "animate" /\ status = "ok") =>
    /\ view.ptr = dataStart
    /\ view.length = particleCount * PARTICLE_SIZE
    /\ view.length <= Len(particles)

\* A step of the store has completed: by a call of updateParticles or inside
\* a frame of the host.
StepDone == op \in {"updateParticles", "animate"} /\ status = "ok"

\* C12: buildGrid called twice in a row for the same positions, width and
\* height yields the same dimensions and the same sequence of slot indices
\* in every cell, and its result is the one it yields from an empty grid,
\* whatever the grid held before.
C12_BuildGridIdempotent ==
  /\ StepDone =>
       grid = buildGrid(mid, particleCount, <<>>, args[2], args[3]).grid
  /\ \A a \in StepArgs :
       LET first == buildGrid(particles, particleCount, grid, a[2], a[3])
           second == buildGrid(particles, particleCount, first.grid, a[2], a[3])
           fresh == buildGrid(particles, particleCount, <<>>, a[2], a[3])
       IN  second = first /\ first = fresh

\* A step rebuilt a grid of the same number of cells as the one before it,
\* whose cells held particles, and at least one particle changed its cell.
C12_Witness ==
  /\ StepDone
  /\ Len(preGrid) = Len(grid)
  /\ \E c \in 1..Len(preGrid) : preGrid[c] # <<>> /\ grid[c] # preGrid[c]
  /\ \E c \in 1..Len(grid) : Len(grid[c]) >= 2

C14_PairTestedOnceFromLowerSlot ==
  /\ \A n \in 1..Len(tests) : tests[n].i < tests[n].j
  /\ \A n, m \in 1..Len(tests) :
       ({tests[n].i, tests[n].j} = {tests[m].i, tests[m].j}) => n = m

\* A step with three particles in one cell that tested all three pairs.
C14_Witness ==
  /\ StepDone
  /\ \E c \in 1..Len(grid) : Len(grid[c]) = 3
  /\ Len(tests) = 3

\* The record of particle i as buffer p holds it now.
Live(p, i) == SubSeq(p, i * PARTICLE_SIZE + 1, i * PARTICLE_SIZE + PARTICLE_SIZE)

\* C15: when a particle is resolved against two others in the same step, the
\* later resolution is computed from the position and velocity the earlier
\* one left it with: it is the resolution of the pair as the buffer holds
\* both particles when the later pair is evaluated.
C15_LaterPairUsesUpdatedRecord ==
  \A m \in 1..Len(tests) : \A n \in 1..(m - 1) :
    LET d == tests[n]
        e == tests[m]
    IN  (/\ Resolves(d.t) /\ Resolves(e.t)
         /\ {d.i, d.j} \cap {e.i, e.j} # {}) =>
          e.after = ResolvePair(e.before, e.i, e.j, Live(e.before, e.i))

\* The smallest n with n * gridCellSize >= extent, for extent > 0:
\* ceil(extent / cellSize).
CeilCells(extent) == (extent + gridCellSize - 1) \div gridCellSize

\* C16 (original wording): after buildGrid(width, height) the grid has
\* ceil(width / cellSize) + 1 columns and ceil(height / cellSize) + 1 rows,
\* for every positive width and height.
C16_GridIsCeilPlusOne ==
  (StepDone /\ args[2] > 0 /\ args[3] > 0) =>
    /\ gridWidth = CeilCells(args[2]) + 1
    /\ gridHeight = CeilCells(args[3]) + 1

\* C16 (amended): after buildGrid(width, height) with positive width and
\* height the grid has floor(width / cellSize) + 1 columns and
\* floor(height / cellSize) + 1 rows: the column count n is the one with
\* (n - 1) * cellSize <= width < n * cellSize, and so for the rows; the grid
\* holds gridWidth * gridHeight cells.
C16_GridIsFloorPlusOne ==
  (StepDone /\ args[2] > 0 /\ args[3] > 0) =>
    /\ (gridWidth - 1) * gridCellSize <= args[2]
    /\ args[2] < gridWidth * gridCellSize
    /\ (gridHeight - 1) * gridCellSize <= args[3]
    /\ args[3] < gridHeight * gridCellSize
    /\ Len(grid) = gridWidth * gridHeight

\* A step in a world whose width is not a multiple of the cell size, and
\* whose height is.
C16_Witness ==
  /\ StepDone
  /\ args[2] > 0 /\ args[2] % gridCellSize # 0
  /\ args[3] > 0 /\ args[3] % gridCellSize = 0
  /\ particleCount > 0

\* The cells of the grid (as indices 0 .. Len(grid) - 1) that hold slot i.
CellsOf(i) ==
  { c \in 0..(Len(grid) - 1) : \E k \in 1..Len(grid[c + 1]) : grid[c + 1][k] = i }

\* C17: after buildGrid(width, height) a particle whose centre lies outside
\* the world bounds (x < 0, x > width, y < 0 or y > height) is in no cell,
\* and a particle whose centre lies inside them is in exactly the cell
\* (floor(x / cellSize), floor(y / cellSize)).  The grid of a completed step
\* was built from the positions in mid.
C17_OutsideInNoCellInsideInItsCell ==
  StepDone =>
    \A i \in Slots :
      LET x == X(mid, i)
          y == Y(mid, i)
          inside == x >= 0 /\ x <= args[2] /\ y >= 0 /\ y <= args[3]
      IN  IF inside
          THEN CellsOf(i) =
                 { (y \div gridCellSize) * gridWidth + (x \div gridCellSize) }
          ELSE CellsOf(i) = {}

\* What the integrate-and-bound stage makes of position pos and velocity v
\* on one axis of extent ext: crossing the low wall, crossing the high wall
\* (and not the low one), or crossing neither.
BoundAxis(pos, v, r, dt, ext, damp, pos1, v1) ==
  LET moved == pos + Mul(v, dt)
  IN  IF moved - r < 0 THEN pos1 = r /\ v1 >= 0
      ELSE IF moved + r > ext THEN pos1 = ext - r /\ v1 <= 0
      ELSE pos1 = moved /\ v1 = Mul(v, damp)

\* C18: after the integrate-and-bound stage, on each axis by itself, a
\* particle whose moved position had x - radius < 0 has x = radius and
\* vx >= 0, one that had x + radius > width (and not x - radius < 0) has
\* x = width - radius and vx <= 0, whatever the sign of its velocity before,
\* and one that crossed no wall has x advanced by vx * dt and vx only
\* multiplied by damping; the same for y with height.
C18_IntegrateBoundsEachAxis ==
  Stepped =>
    \A i \in Slots :
      /\ BoundAxis(X(pre, i), VX(pre, i), Radius(pre, i), args[1], args[2],
                   damping, X(mid, i), VX(mid, i))
      /\ BoundAxis(Y(pre, i), VY(pre, i), Radius(pre, i), args[1], args[3],
                   damping, Y(mid, i), VY(mid, i))

\* A step in which a particle moving left was beyond the right wall and
\* left it moving left, and a particle moving along y crossed no wall on y.
C18_Witness ==
  /\ Stepped
  /\ \E i \in Slots :
       LET moved == X(pre, i) + Mul(VX(pre, i), args[1])
       IN  /\ VX(pre, i) < 0
           /\ moved + Radius(pre, i) > args[2]
           /\ ~(moved - Radius(pre, i) < 0)
           /\ VX(mid, i) < 0
  /\ \E i \in Slots :
       LET moved == Y(pre, i) + Mul(VY(pre, i), args[1])
       IN  /\ VY(pre, i) # 0
           /\ ~(moved - Radius(pre, i) < 0)
           /\ ~(moved + Radius(pre, i) > args[3])
           /\ VY(mid, i) # VY(pre, i)

\* What the rounding to 1/Scale may leave of the pair's distance after the
\* correction: the quotient overlap / (m_i + m_j) is held to within
\* 1 / (2 * Scale) and is multiplied by m_i and by m_j.
DistSlack(b, i, j) == (Mass(b, i) + Mass(b, j)) \div Scale

\* C19: whenever a pair (i, j) is resolved, with overlap = r_i + r_j - dist,
\* i is moved against the normal and j along it in the proportions m_j and
\* m_i of the overlap, so that the distance between the two centres becomes
\* r_i + r_j and the mass-weighted centre m_i * p_i + m_j * p_j stays where
\* it was (both up to the rounding of the stored increments).
C19_CorrectionSeparatesPair ==
  \A n \in 1..Len(tests) :
    LET e == tests[n]
        b == e.before
        a == e.after
        i == e.i
        j == e.j
        rsum == Radius(b, i) + Radius(b, j)
        distSq == (X(a, j) - X(a, i)) * (X(a, j) - X(a, i))
                    + (Y(a, j) - Y(a, i)) * (Y(a, j) - Y(a, i))
        cx(p) == Mass(p, i) * X(p, i) + Mass(p, j) * X(p, j)
        cy(p) == Mass(p, i) * Y(p, i) + Mass(p, j) * Y(p, j)
    IN  Resolves(e.t) =>
          /\ (rsum - DistSlack(b, i, j)) * (rsum - DistSlack(b, i, j)) <= distSq
          /\ distSq <= (rsum + DistSlack(b, i, j)) * (rsum + DistSlack(b, i, j))
          /\ Abs(cx(a) - cx(b)) <= MomentumSlack(b, i, j)
          /\ Abs(cy(a) - cy(b)) <= MomentumSlack(b, i, j)

\* Every radius of buffer p is at most 8 and every centre lies inside the
\* world of the given width and height.
Confined(p, width, height) ==
  \A i \in 0..(Records(p) - 1) :
    /\ Radius(p, i) <= 8 * Scale
    /\ 0 <= X(p, i) /\ X(p, i) <= width
    /\ 0 <= Y(p, i) /\ Y(p, i) <= height

\* C20: for a store with all radii at most 8 and all centres inside the
\* world after the integrate stage, the grid version of the step and the
\* all-pairs version leave the particle buffer in the same state.
C20_GridStepEqualsAllPairsStep ==
  (/\ Stepped
   /\ Len(pre) = particleCount * PARTICLE_SIZE
   /\ Confined(mid, args[2], args[3])) =>
     particles = BruteStep(pre, particleCount, args[1], args[2], args[3], damping)

\* ------------------------------------------------------------ C21

\* The slot indices stored in the cells g.
SlotsIn(g) == UNION { { g[c][k] : k \in 1..Len(g[c]) } : c \in 1..Len(g) }

\* C21: whatever initialisations, steps, gravity and force calls came
\* before, a completed step used only indices that are in range: the grid
\* has gridWidth * gridHeight cells and every cell index its scans read is
\* below that, every slot index in the cells the scans read from is below
\* particleCount, both particles of every tested pair are below
\* particleCount, and the buffer holds particleCount records, so that every
\* element the step touched is below particleCount * 6.
C21_StepIndicesInRange ==
  StepDone =>
    /\ Len(grid) = gridWidth * gridHeight
    /\ \A k \in 1..Len(reads) :
         reads[k] >= 0 /\ reads[k] < gridWidth * gridHeight
    /\ \A j \in SlotsIn(grid) : j >= 0 /\ j < particleCount
    /\ \A k \in 1..Len(tests) :
         /\ tests[k].i >= 0 /\ tests[k].i < particleCount
         /\ tests[k].j >= 0 /\ tests[k].j < particleCount
         /\ tests[k].j * PARTICLE_SIZE + 5 < particleCount * PARTICLE_SIZE
    /\ particleCount >= 0
    /\ Len(particles) = particleCount * PARTICLE_SIZE

\* A step that reuses the cleared cells of an earlier grid of another shape,
\* cells that held slot indices of a larger population, and that reads
\* cells and tests a pair.
C21_Witness ==
  /\ StepDone
  /\ Len(preGrid) = Len(grid)
  /\ preShape # <<gridWidth, gridHeight>>
  /\ \E j \in SlotsIn(preGrid) : j >= particleCount
  /\ Len(reads) > 0
  /\ Len(tests) > 0

\* ------------------------------------------------------------ C22

\* The places <<c, k>> of the cells g: entry k of cell c.
Places(g) == UNION { { <<c, k>> : k \in 1..Len(g[c]) } : c \in 1..Len(g) }

\* C22: after the buildGrid of a completed step, also one that cleared and
\* reused the cells of a grid of another shape, no slot index is stored at
\* two places of the grid (not in two cells, not twice in one cell), and the
\* slot indices of every cell are in strictly ascending order.
C22_CellsDisjointAndAscending ==
  StepDone =>
    /\ \A a \in Places(grid) : \A b \in Places(grid) :
         grid[a[1]][a[2]] = grid[b[1]][b[2]] => a = b
    /\ \A c \in 1..Len(grid) : \A k \in 1..(Len(grid[c]) - 1) :
         grid[c][k] < grid[c][k + 1]

\* A step that cleared and reused the cells of a grid with as many cells
\* and another shape, of which at least one was not empty, and that left
\* two or more particles in one cell.
C22_Witness ==
  /\ StepDone
  /\ Len(preGrid) = Len(grid)
  /\ preShape # <<gridWidth, gridHeight>>
  /\ SlotsIn(preGrid) # {}
  /\ \E c \in 1..Len(grid) : Len(grid[c]) >= 2
====
